---- MODULE Spec2Model ----
(***************************************************************************)
(* Model of the 0n3 multi-model chat front end (components/chat-ui.tsx)    *)
(* together with the /chat collaborator it talks to.                       *)
(*                                                                         *)
(* The front end is a React component: its state is the tuple of useState  *)
(* cells, every event handler runs to completion (React flushes the state  *)
(* updates of a discrete event before the next event is delivered), and    *)
(* the asynchronous handleSubmit is split at its single await into the     *)
(* part that runs in the submit event and the continuation that runs when  *)
(* the fetch settles.                                                      *)
(*                                                                         *)
(* Text (the input line, an API key, the Max Turns field) is a sequence of *)
(* one-character strings, so that trim() and parseInt() are computed.      *)
(***************************************************************************)
EXTENDS Integers, Sequences, FiniteSets, TLC

VARIABLES
    messages,      \* useState<Message[]>([])            the transcript
    input,         \* useState('')                        the input line
    endpoints,     \* useState<Endpoint[]>(defaultEndpoints)
    showSettings,  \* useState(false)
    isLoading,     \* useState(false)                     the in-flight flag
    autoContinue,  \* useState(false)
    maxTurns,      \* useState(5)
    inflight,      \* the fetch('/chat') calls that have not settled, oldest first
    networkCalls,  \* number of fetch calls issued so far
    tcState,       \* Turn Controller state of the /chat collaborator
    turnCount,     \* rounds completed for the request being served
    completed,     \* endpoints that answered in the current round, in completion order
    responses,     \* the response list built for the request being served
    submitted,     \* what the UI showed when the last request was dispatched
    edits,         \* number of settings changes made so far
    sanInput,      \* the display name handed to the Sanitizer
    sanProvider,   \* the provider kind it is sanitized for
    sanOutputs,    \* the results of sanitizing it once, and of sanitizing the result
    viewMessages,  \* a message list handed to the grouping
    viewIndex,     \* how many of its messages reduce has consumed
    viewGroups     \* the accumulator of reduce

vars == <<messages, input, endpoints, showSettings, isLoading, autoContinue,
          maxTurns, inflight, networkCalls, tcState, turnCount, completed,
          responses, submitted, edits, sanInput, sanProvider, sanOutputs,
          viewMessages, viewIndex, viewGroups>>

uiVars == <<messages, input, endpoints, showSettings, isLoading, autoContinue, maxTurns>>
netVars == <<inflight, networkCalls>>
backendVars == <<tcState, turnCount, completed, responses>>
sanVars == <<sanInput, sanProvider, sanOutputs>>
viewVars == <<viewMessages, viewIndex, viewGroups>>
appVars == <<uiVars, netVars, backendVars, submitted, edits>>

(***************************************************************************)
(* Bounds of the exploration.                                              *)
(***************************************************************************)
MaxMessages == 3    \* a submit is explored only while the transcript is shorter
MaxEndpoints == 3   \* addEndpoint is explored only below this length
MaxEdits == 2       \* settings changes explored per behaviour

(***************************************************************************)
(* Text helpers.                                                           *)
(***************************************************************************)
Blank == " "

RECURSIVE trimStart(_)
trimStart(s) ==
    IF s = <<>> THEN s
    ELSE IF Head(s) = Blank THEN trimStart(Tail(s)) ELSE s

RECURSIVE trimEnd(_)
trimEnd(s) ==
    IF s = <<>> THEN s
    ELSE IF s[Len(s)] = Blank THEN trimEnd(SubSeq(s, 1, Len(s) - 1)) ELSE s

\* String.prototype.trim
trim(s) == trimEnd(trimStart(s))

DigitValue ==
    ("0" :> 0) @@ ("1" :> 1) @@ ("2" :> 2) @@ ("3" :> 3) @@ ("4" :> 4) @@
    ("5" :> 5) @@ ("6" :> 6) @@ ("7" :> 7) @@ ("8" :> 8) @@ ("9" :> 9)

IsDigit(c) == c \in DOMAIN DigitValue

\* the value of the longest prefix of digits of s, continuing from acc
RECURSIVE DigitsValue(_, _)
DigitsValue(s, acc) ==
    IF s = <<>> \/ ~IsDigit(Head(s)) THEN acc
    ELSE DigitsValue(Tail(s), 10 * acc + DigitValue[Head(s)])

\* parseInt(text): leading blanks skipped, optional sign, then the longest run of
\* digits; NaN (isNaN) when there is no digit
parseInt(text) ==
    LET s == trimStart(text)
        neg == s # <<>> /\ Head(s) = "-"
        body == IF s # <<>> /\ Head(s) \in {"-", "+"} THEN Tail(s) ELSE s
    IN  IF body = <<>> \/ ~IsDigit(Head(body)) THEN [isNaN |-> TRUE, value |-> 0]
        ELSE [isNaN |-> FALSE,
              value |-> IF neg THEN 0 - DigitsValue(body, 0) ELSE DigitsValue(body, 0)]

\* x || 1 on the result of parseInt: NaN and 0 are falsy
OrOne(x) == IF x.isNaN \/ x.value = 0 THEN 1 ELSE x.value

Max(a, b) == IF a >= b THEN a ELSE b

\* Math.max(1, parseInt(e.target.value) || 1)
MaxTurnsFromField(text) == Max(1, OrOne(parseInt(text)))

(***************************************************************************)
(* Values the user can type.                                               *)
(***************************************************************************)
InputTexts == {<<>>, <<" ">>, <<"h", "i">>, <<" ", "y">>}
KeyTexts == {<<>>, <<" ">>, <<"k">>}
MaxTurnsTexts == {<<>>, <<"0">>, <<"-", "2">>, <<"2">>, <<"2", "1">>}
EndpointFields == {"name", "apiKey", "baseUrl", "modelId"}
FieldTexts(field) ==
    CASE field = "apiKey" -> KeyTexts
      [] field = "name" -> {"Zed"}
      [] field = "baseUrl" -> {"http://local"}
      [] field = "modelId" -> {"m1"}

(***************************************************************************)
(* Data.                                                                   *)
(***************************************************************************)
defaultEndpoints ==
    << [name |-> "Model A", apiKey |-> <<>>,
        baseUrl |-> "https://openrouter.ai/api/v1",
        modelId |-> "anthropic/claude-3.5-sonnet"],
       [name |-> "Model B", apiKey |-> <<>>,
        baseUrl |-> "https://api.openai.com/v1",
        modelId |-> "gpt-4"] >>

NoName == "(none)"

\* { role: 'user', content: input }
UserMessage(text) == [role |-> "user", content |-> text, name |-> NoName]

NoEndpointMessage ==
    [role |-> "assistant",
     content |-> "Please configure at least one model endpoint in settings (gear icon) before chatting.",
     name |-> "System"]

ServerErrorMessage ==
    [role |-> "assistant",
     content |-> "Error: Failed to get response from the server. Please check your API keys and endpoints in settings.",
     name |-> "System"]

(***************************************************************************)
(* handleSubmit, up to its await.                                          *)
(***************************************************************************)
\* mutant: the key is compared without trim()
IsActiveNoTrim(endpoint) == endpoint.apiKey # <<>>

\* endpoint.apiKey.trim() !== ''
IsActive(endpoint) == trim(endpoint.apiKey) # <<>>

\* mutant: the filter is dropped, every configured endpoint is dispatched to
activeEndpointsUnfiltered(eps) == eps

\* endpoints.filter(endpoint => endpoint.apiKey.trim() !== '')
RECURSIVE activeEndpoints(_)
activeEndpoints(eps) ==
    IF eps = <<>> THEN <<>>
    ELSE IF IsActive(Head(eps)) THEN <<Head(eps)>> \o activeEndpoints(Tail(eps))
    ELSE activeEndpoints(Tail(eps))

\* mutant: the guard tests the in-flight flag only
SubmitBlockedOnlyWhileLoading(text, loading) == loading

\* if (!input.trim() || isLoading) return;
SubmitBlocked(text, loading) == trim(text) = <<>> \/ loading

\* mutant: the POST carries the transcript without the new user message
BuildRequestStale(msgs, userMessage, active, auto, turns) ==
    [messages |-> msgs,
     endpoints |-> active,
     auto_continue |-> auto,
     max_turns |-> turns]

\* mutant: auto_continue is sent as true whatever the checkbox says
BuildRequestAutoOn(msgs, userMessage, active, auto, turns) ==
    [messages |-> Append(msgs, userMessage),
     endpoints |-> active,
     auto_continue |-> TRUE,
     max_turns |-> turns]

\* mutant: max_turns is sent one too high
BuildRequestTurnsPlusOne(msgs, userMessage, active, auto, turns) ==
    [messages |-> Append(msgs, userMessage),
     endpoints |-> active,
     auto_continue |-> auto,
     max_turns |-> turns + 1]

\* the body of the POST
BuildRequest(msgs, userMessage, active, auto, turns) ==
    [messages |-> Append(msgs, userMessage),
     endpoints |-> active,
     auto_continue |-> auto,
     max_turns |-> turns]

\* mutant: the in-flight flag is not raised
LoadingNotRaised == FALSE

\* setIsLoading(true) after the user message is added
LoadingAfterDispatch == TRUE

\* setInput('') after the user message is added
InputAfterDispatch == <<>>

\* setMessages(prev => [...prev, m])
AppendMessage(prev, m) == Append(prev, m)

\* mutant: the responses are put in front of the transcript
PrependResponses(prev, resp) == resp \o prev

\* mutant: the transcript is replaced by the responses
ReplaceByResponses(prev, resp) == resp

\* setMessages(prev => [...prev, ...data.responses])
AppendResponses(prev, resp) == prev \o resp

\* the Turn Controller leaves Idle when a submission arrives
TCOnSubmit ==
    /\ tcState' = "Dispatching"
    /\ turnCount' = 0
    /\ completed' = <<>>
    /\ responses' = <<>>

TCReset ==
    /\ tcState' = "Idle"
    /\ turnCount' = 0
    /\ completed' = <<>>
    /\ responses' = <<>>

\* the response has been handed over; completed keeps the order in which the
\* endpoints of the last round answered
TCReturns ==
    /\ tcState' = "Idle"
    /\ turnCount' = 0
    /\ responses' = <<>>
    /\ UNCHANGED completed

SubmitRejected ==
    /\ SubmitBlocked(input, isLoading)
    /\ UNCHANGED vars

SubmitNoEndpoint ==
    /\ ~SubmitBlocked(input, isLoading)
    /\ Len(activeEndpoints(endpoints)) = 0
    /\ messages' = AppendMessage(messages, NoEndpointMessage)
    /\ UNCHANGED <<input, endpoints, showSettings, isLoading, autoContinue, maxTurns>>
    /\ UNCHANGED <<netVars, backendVars, submitted, edits>>
    /\ UNCHANGED <<sanVars, viewVars>>

SubmitDispatch ==
    /\ ~SubmitBlocked(input, isLoading)
    /\ Len(activeEndpoints(endpoints)) # 0
    /\ LET userMessage == UserMessage(input)
           request == BuildRequest(messages, userMessage, activeEndpoints(endpoints),
                                   autoContinue, maxTurns)
       IN  /\ messages' = AppendMessage(messages, userMessage)
           /\ inflight' = Append(inflight, request)
           /\ submitted' = [messages |-> messages, input |-> input,
                            endpoints |-> endpoints, autoContinue |-> autoContinue,
                            maxTurns |-> maxTurns]
    /\ input' = InputAfterDispatch
    /\ isLoading' = LoadingAfterDispatch
    /\ networkCalls' = networkCalls + 1
    /\ TCOnSubmit
    /\ UNCHANGED <<endpoints, showSettings, autoContinue, maxTurns, edits>>
    /\ UNCHANGED <<sanVars, viewVars>>

handleSubmit ==
    /\ Len(messages) < MaxMessages
    /\ (SubmitRejected \/ SubmitNoEndpoint \/ SubmitDispatch)

\* onChange of the input line, which is disabled while isLoading
setInput(text) ==
    /\ ~isLoading
    /\ input' = text
    /\ UNCHANGED <<messages, endpoints, showSettings, isLoading, autoContinue, maxTurns>>
    /\ UNCHANGED <<netVars, backendVars, submitted, edits>>
    /\ UNCHANGED <<sanVars, viewVars>>

(***************************************************************************)
(* handleSubmit, after its await: the fetch has settled.                   *)
(***************************************************************************)
\* response.ok, response.json() succeeded: the try block runs to its end, then finally
FetchOk ==
    /\ inflight # <<>>
    /\ tcState = "Done"
    /\ messages' = AppendResponses(messages, responses)
    /\ isLoading' = FALSE
    /\ inflight' = Tail(inflight)
    /\ TCReturns
    /\ UNCHANGED <<input, endpoints, showSettings, autoContinue, maxTurns>>
    /\ UNCHANGED <<networkCalls, submitted, edits>>
    /\ UNCHANGED <<sanVars, viewVars>>

FailureKinds == {"http_status", "transport"}

\* mutant: the catch block only logs
FetchFailsSilently(kind) ==
    /\ inflight # <<>>
    /\ kind \in FailureKinds
    /\ isLoading' = FALSE
    /\ inflight' = Tail(inflight)
    /\ TCReset
    /\ UNCHANGED <<messages, input, endpoints, showSettings, autoContinue, maxTurns>>
    /\ UNCHANGED <<networkCalls, submitted, edits>>
    /\ UNCHANGED <<sanVars, viewVars>>

\* mutant: setIsLoading(false) sits at the end of the try block, not in finally
FetchFailsKeepsLoading(kind) ==
    /\ inflight # <<>>
    /\ kind \in FailureKinds
    /\ messages' = AppendMessage(messages, ServerErrorMessage)
    /\ inflight' = Tail(inflight)
    /\ TCReset
    /\ UNCHANGED <<input, endpoints, showSettings, isLoading, autoContinue, maxTurns>>
    /\ UNCHANGED <<networkCalls, submitted, edits>>
    /\ UNCHANGED <<sanVars, viewVars>>

\* fetch rejected (transport) or !response.ok (throw new Error): catch, then finally
FetchFails(kind) ==
    /\ inflight # <<>>
    /\ kind \in FailureKinds
    /\ messages' = AppendMessage(messages, ServerErrorMessage)
    /\ isLoading' = FALSE
    /\ inflight' = Tail(inflight)
    /\ TCReset
    /\ UNCHANGED <<input, endpoints, showSettings, autoContinue, maxTurns>>
    /\ UNCHANGED <<networkCalls, submitted, edits>>
    /\ UNCHANGED <<sanVars, viewVars>>

(***************************************************************************)
(* The settings panel, rendered only while showSettings.                   *)
(***************************************************************************)
ToggleSettings ==
    /\ showSettings' = ~showSettings
    /\ UNCHANGED <<messages, input, endpoints, isLoading, autoContinue, maxTurns>>
    /\ UNCHANGED <<netVars, backendVars, submitted, edits>>
    /\ UNCHANGED <<sanVars, viewVars>>

CanEdit == showSettings /\ edits < MaxEdits

\* onChange of the checkbox: setAutoContinue(e.target.checked)
setAutoContinue(checked) ==
    /\ CanEdit
    /\ checked # autoContinue
    /\ autoContinue' = checked
    /\ edits' = edits + 1
    /\ UNCHANGED <<messages, input, endpoints, showSettings, isLoading, maxTurns>>
    /\ UNCHANGED <<netVars, backendVars, submitted>>
    /\ UNCHANGED <<sanVars, viewVars>>

\* onChange of the Max Turns field
setMaxTurns(text) ==
    /\ CanEdit
    /\ maxTurns' = MaxTurnsFromField(text)
    /\ edits' = edits + 1
    /\ UNCHANGED <<messages, input, endpoints, showSettings, isLoading, autoContinue>>
    /\ UNCHANGED <<netVars, backendVars, submitted>>
    /\ UNCHANGED <<sanVars, viewVars>>

\* updated[index] = { ...updated[index], [field]: value }
UpdateField(eps, index, field, value) ==
    [eps EXCEPT ![index] = [@ EXCEPT ![field] = value]]

handleEndpointUpdate(index, field, value) ==
    /\ CanEdit
    /\ index \in DOMAIN endpoints
    /\ endpoints' = UpdateField(endpoints, index, field, value)
    /\ edits' = edits + 1
    /\ UNCHANGED <<messages, input, showSettings, isLoading, autoContinue, maxTurns>>
    /\ UNCHANGED <<netVars, backendVars, submitted>>
    /\ UNCHANGED <<sanVars, viewVars>>

\* `Model ${prev.length + 1}`
NewEndpointName(n) ==
    CASE n = 1 -> "Model 1" [] n = 2 -> "Model 2" [] n = 3 -> "Model 3"
      [] n = 4 -> "Model 4" [] OTHER -> "Model 5+"

NewEndpoint(eps) ==
    [name |-> NewEndpointName(Len(eps) + 1), apiKey |-> <<>>,
     baseUrl |-> "https://api.openai.com/v1", modelId |-> "gpt-3.5-turbo"]

addEndpoint ==
    /\ CanEdit
    /\ Len(endpoints) < MaxEndpoints
    /\ endpoints' = Append(endpoints, NewEndpoint(endpoints))
    /\ edits' = edits + 1
    /\ UNCHANGED <<messages, input, showSettings, isLoading, autoContinue, maxTurns>>
    /\ UNCHANGED <<netVars, backendVars, submitted>>
    /\ UNCHANGED <<sanVars, viewVars>>

\* prev.filter((_, i) => i !== index)
RemoveAt(eps, index) ==
    SubSeq(eps, 1, index - 1) \o SubSeq(eps, index + 1, Len(eps))

removeEndpoint(index) ==
    /\ CanEdit
    /\ index \in DOMAIN endpoints
    /\ endpoints' = RemoveAt(endpoints, index)
    /\ edits' = edits + 1
    /\ UNCHANGED <<messages, input, showSettings, isLoading, autoContinue, maxTurns>>
    /\ UNCHANGED <<netVars, backendVars, submitted>>
    /\ UNCHANGED <<sanVars, viewVars>>

(***************************************************************************)
(* The /chat collaborator: Dispatcher, Turn Controller, Transcript Builder.*)
(* It serves the oldest request in flight.                                 *)
(***************************************************************************)
Range(f) == {f[i] : i \in DOMAIN f}

\* the reply of the i-th endpoint of the request in round turn
Reply(ep, i, turn) ==
    [role |-> "assistant", content |-> <<"reply", i, turn>>, name |-> ep.name]

\* one reply per endpoint of the request, in endpoint-list order
RoundReplies(eps, turn) == [i \in 1..Len(eps) |-> Reply(eps[i], i, turn)]

\* stop after a round unless auto-continue is on and the turn count is below max
TCStops(request, turns) == ~request.auto_continue \/ turns >= request.max_turns

\* endpoint i of the request answers; the round completes with the last answer
EndpointCompletes(i) ==
    /\ inflight # <<>>
    /\ tcState = "Dispatching"
    /\ LET request == Head(inflight)
           n == Len(request.endpoints)
       IN  /\ i \in 1..n
           /\ i \notin Range(completed)
           /\ completed' = Append(completed, i)
           /\ IF Len(completed) + 1 = n
              THEN /\ responses' = responses \o RoundReplies(request.endpoints, turnCount + 1)
                   /\ turnCount' = turnCount + 1
                   /\ tcState' = "AwaitingContinueDecision"
              ELSE UNCHANGED <<responses, turnCount, tcState>>
    /\ UNCHANGED <<uiVars, netVars, submitted, edits>>
    /\ UNCHANGED <<sanVars, viewVars>>

ContinueDecision ==
    /\ inflight # <<>>
    /\ tcState = "AwaitingContinueDecision"
    /\ IF TCStops(Head(inflight), turnCount)
       THEN tcState' = "Done" /\ UNCHANGED completed
       ELSE tcState' = "Dispatching" /\ completed' = <<>>
    /\ UNCHANGED <<turnCount, responses>>
    /\ UNCHANGED <<uiVars, netVars, submitted, edits>>
    /\ UNCHANGED <<sanVars, viewVars>>

(***************************************************************************)
(* The view: messages grouped by interaction.                              *)
(***************************************************************************)
\* mutant: the role test is dropped, every message joins the last group
GroupStepNoRoleTest(groups, message) ==
    IF Len(groups) = 0 THEN Append(groups, <<message>>)
    ELSE [groups EXCEPT ![Len(groups)] = Append(@, message)]

\* mutant: an assistant message that cannot join the last group is skipped
GroupStepDropsOrphan(groups, message) ==
    IF message.role = "user" THEN Append(groups, <<message>>)
    ELSE IF Len(groups) = 0 THEN Append(groups, <<message>>)
    ELSE LET lastGroup == groups[Len(groups)]
             lastMessage == lastGroup[Len(lastGroup)]
         IN  IF lastMessage.role = "user"
             THEN [groups EXCEPT ![Len(groups)] = Append(@, message)]
             ELSE groups

\* the callback of messages.reduce
GroupStep(groups, message) ==
    IF message.role = "user" THEN Append(groups, <<message>>)
    ELSE IF Len(groups) = 0 THEN Append(groups, <<message>>)
    ELSE LET lastGroup == groups[Len(groups)]
             lastMessage == lastGroup[Len(lastGroup)]
         IN  IF lastMessage.role = "user"
             THEN [groups EXCEPT ![Len(groups)] = Append(@, message)]
             ELSE Append(groups, <<message>>)

RECURSIVE Reduce(_, _)
Reduce(groups, msgs) ==
    IF msgs = <<>> THEN groups
    ELSE Reduce(GroupStep(groups, Head(msgs)), Tail(msgs))

messageGroups(msgs) == Reduce(<<>>, msgs)

(***************************************************************************)
(* The specification.                                                      *)
(***************************************************************************)
NoSubmission ==
    [messages |-> <<>>, input |-> <<>>, endpoints |-> <<>>,
     autoContinue |-> FALSE, maxTurns |-> 0]

AppInit ==
    /\ messages = <<>>
    /\ input = <<>>
    /\ endpoints = defaultEndpoints
    /\ showSettings = FALSE
    /\ isLoading = FALSE
    /\ autoContinue = FALSE
    /\ maxTurns = 5
    /\ inflight = <<>>
    /\ networkCalls = 0
    /\ tcState = "Idle"
    /\ turnCount = 0
    /\ completed = <<>>
    /\ responses = <<>>
    /\ submitted = NoSubmission
    /\ edits = 0

\* the Sanitizer and the grouping are given nothing
HarnessIdle ==
    /\ sanInput = <<>>
    /\ sanProvider = "permissive"
    /\ sanOutputs = <<>>
    /\ viewMessages = <<>>
    /\ viewIndex = 0
    /\ viewGroups = <<>>

Next ==
    \/ handleSubmit
    \/ \E text \in InputTexts : setInput(text)
    \/ FetchOk
    \/ \E kind \in FailureKinds : FetchFails(kind)
    \/ ToggleSettings
    \/ \E checked \in BOOLEAN : setAutoContinue(checked)
    \/ \E text \in MaxTurnsTexts : setMaxTurns(text)
    \/ \E index \in 1..MaxEndpoints + 1, field \in EndpointFields :
          \E value \in FieldTexts(field) : handleEndpointUpdate(index, field, value)
    \/ addEndpoint
    \/ \E index \in 1..MaxEndpoints + 1 : removeEndpoint(index)
    \/ \E i \in 1..MaxEndpoints + 1 : EndpointCompletes(i)
    \/ ContinueDecision

Init == AppInit /\ HarnessIdle

Spec == Init /\ [][Next]_vars

(***************************************************************************)
(* Properties.  They state what a key, an input line and a transcript are  *)
(* in their own terms, not through the operators of the model above.       *)
(***************************************************************************)
\* a text made of blanks only (the empty text included)
OnlyBlanks(text) == \A j \in DOMAIN text : text[j] = Blank

HasKey(endpoint) == ~OnlyBlanks(endpoint.apiKey)

NoEndpointHasKey(eps) == \A i \in DOMAIN eps : ~HasKey(eps[i])

\* a submit that passes the guard of handleSubmit
AcceptedSubmit == handleSubmit /\ ~OnlyBlanks(input) /\ ~isLoading

IsPrefix(s, t) == Len(s) <= Len(t) /\ SubSeq(t, 1, Len(s)) = s

Last(s) == s[Len(s)]

IsSystemMessage(m) == m.role = "assistant" /\ m.name = "System"

\* the step appends exactly one message, a System message
AppendsOneSystemMessage ==
    /\ Len(messages') = Len(messages) + 1
    /\ IsPrefix(messages, messages')
    /\ IsSystemMessage(Last(messages'))

\* C1: a submit accepted while no endpoint is active appends exactly one message,
\* an assistant-role message named System, and issues no network call.
C1_NoActiveEndpointSubmit ==
    [][(AcceptedSubmit /\ NoEndpointHasKey(endpoints))
          => (AppendsOneSystemMessage /\ networkCalls' = networkCalls
              /\ inflight' = inflight)]_vars

\* a blank-key endpoint list, a submit, and the notice as the only message
C1_Witness ==
    /\ messages = <<NoEndpointMessage>>
    /\ NoEndpointHasKey(endpoints)
    /\ \E i \in DOMAIN endpoints : endpoints[i].apiKey = <<Blank>>
    /\ ~OnlyBlanks(input)
    /\ networkCalls = 0
    /\ inflight = <<>>

\* the endpoints of eps that have a key, in the order of eps
WithKey(eps) == SelectSeq(eps, HasKey)

C3_SubmissionsSerialized ==
    /\ [](Len(inflight) <= 1 /\ (isLoading <=> inflight # <<>>))
    /\ [][inflight # <<>> =>
            (networkCalls' = networkCalls /\ Len(inflight') <= Len(inflight)
             /\ (handleSubmit => UNCHANGED vars))]_vars

\* a second request is outstanding after the first one settled
C3_Witness ==
    /\ Len(inflight) = 1
    /\ isLoading
    /\ networkCalls = 2

\* C4: a submit without an active endpoint, and a request that ends in a non-2xx
\* status or a transport error, each append exactly one message.
C4_FailureAppendsOneMessage ==
    [][((AcceptedSubmit /\ NoEndpointHasKey(endpoints))
          \/ (\E kind \in FailureKinds : FetchFails(kind)))
          => AppendsOneSystemMessage]_vars

\* a failed request left the user message followed by the error message
C4_Witness ==
    /\ Len(messages) = 2
    /\ messages[1].role = "user"
    /\ messages[2] = ServerErrorMessage
    /\ ~isLoading
    /\ inflight = <<>>
    /\ networkCalls = 1

\* the turns of msgs: a user message with the assistant messages that follow it,
\* up to the next user message or the end
UserTurns(msgs) ==
    {SubSeq(msgs, p, q) : <<p, q>> \in
        {pq \in (DOMAIN msgs) \X (DOMAIN msgs) :
            /\ pq[1] <= pq[2]
            /\ msgs[pq[1]].role = "user"
            /\ \A k \in (pq[1] + 1)..pq[2] : msgs[k].role = "assistant"
            /\ (pq[2] = Len(msgs) \/ msgs[pq[2] + 1].role = "user")}}

\* C5: grouping starts a group at each user message and attaches every following
\* assistant message to it: a user message followed by k assistant messages is
\* one group of k+1 messages.
C5_TurnIsOneGroup ==
    \A turn \in UserTurns(messages) :
        \E g \in DOMAIN messageGroups(messages) : messageGroups(messages)[g] = turn

\* every assistant message has a user message before it
AssistantFollowsUser(msgs, i) ==
    msgs[i].role = "assistant" => \E j \in 1..(i - 1) : msgs[j].role = "user"

C7_AppendOnly == [][IsPrefix(messages, messages')]_vars

\* a notice, a user message and a server error, after endpoint and setting changes
C7_Witness ==
    /\ Len(messages) = 3
    /\ messages[1] = NoEndpointMessage
    /\ messages[2].role = "user"
    /\ messages[3] = ServerErrorMessage
    /\ edits > 0

\* C8: an accepted submit with an active endpoint issues exactly one request: its
\* messages are the transcript followed by the new user message, its endpoints the
\* active endpoints, whole, in endpoint-list order.
C8_RequestCarriesTranscriptAndActive ==
    [][(AcceptedSubmit /\ ~NoEndpointHasKey(endpoints)) =>
         /\ networkCalls' = networkCalls + 1
         /\ Len(inflight') = Len(inflight) + 1
         /\ IsPrefix(inflight, inflight')
         /\ Last(inflight').messages =
               messages \o <<[role |-> "user", content |-> input, name |-> NoName]>>
         /\ Last(inflight').endpoints = WithKey(endpoints)]_vars

\* a request that carries an earlier transcript and leaves an endpoint out
C8_Witness ==
    /\ Len(inflight) = 1
    /\ Len(inflight[1].messages) >= 2
    /\ Len(inflight[1].endpoints) >= 1
    /\ Len(inflight[1].endpoints) < Len(submitted.endpoints)

\* what an accepted submit does when keyed is the set of positions of the
\* endpoints that count as having a key
SubmitFollowsKeys(keyed) ==
    /\ keyed = {} <=> (inflight' = inflight /\ Last(messages') = NoEndpointMessage)
    /\ inflight' # inflight =>
          \A i \in DOMAIN endpoints :
              i \in keyed <=> \E k \in DOMAIN Last(inflight').endpoints :
                                  Last(inflight').endpoints[k] = endpoints[i]

\* C9 as stated: an endpoint is dispatched to, and counts against the no-endpoint
\* error, iff its apiKey is non-empty.
C9_ActiveIffKeyNonEmpty ==
    [][AcceptedSubmit =>
         SubmitFollowsKeys({i \in DOMAIN endpoints : endpoints[i].apiKey # <<>>})]_vars

\* C9 amended: an endpoint is dispatched to, and counts against the no-endpoint
\* error, iff its apiKey holds a character that is not a blank.
C9_ActiveIffKeyHasText ==
    [][AcceptedSubmit =>
         SubmitFollowsKeys({i \in DOMAIN endpoints : HasKey(endpoints[i])})]_vars

\* a request that left out an endpoint whose key is one blank
C9_Witness ==
    /\ Len(inflight) = 1
    /\ \E i \in DOMAIN submitted.endpoints :
          /\ submitted.endpoints[i].apiKey = <<Blank>>
          /\ \A k \in DOMAIN inflight[1].endpoints :
                inflight[1].endpoints[k] # submitted.endpoints[i]

\* C10: a request submitted with auto-continue off is served in exactly one round,
\* whatever maxTurns is: no second round is dispatched.
C10_OneRoundWithoutAutoContinue ==
    (inflight # <<>> /\ ~submitted.autoContinue) =>
        /\ tcState = "Dispatching" => turnCount = 0
        /\ tcState \in {"AwaitingContinueDecision", "Done"} => turnCount = 1

\* max turns 21, auto-continue off, and the controller is done after one round
C10_Witness ==
    /\ inflight # <<>>
    /\ tcState = "Done"
    /\ ~submitted.autoContinue
    /\ submitted.maxTurns = 21
    /\ turnCount = 1

\* a step of the collaborator on the request it serves
BackendStep == (\E i \in 1..MaxEndpoints + 1 : EndpointCompletes(i)) \/ ContinueDecision

C15_TranscriptFrozenWhileOutstanding ==
    /\ [](inflight # <<>> => messages = Head(inflight).messages)
    /\ [][inflight # <<>> =>
            \/ inflight' = inflight /\ messages' = messages
            \/ /\ inflight' = Tail(inflight)
               /\ tcState = "Done"
               /\ messages' = Head(inflight).messages \o responses
            \/ /\ inflight' = Tail(inflight)
               /\ messages' = Head(inflight).messages \o <<ServerErrorMessage>>]_vars

\* the endpoint list was edited while the request was outstanding, the response is
\* ready, and the transcript is still the one the request carries
C15_Witness ==
    /\ Len(inflight) = 1
    /\ tcState = "Done"
    /\ endpoints # submitted.endpoints
    /\ messages = inflight[1].messages
    /\ Len(messages) >= 2

\* C16: a submit with blank input, or made while a request is outstanding, changes
\* neither transcript, input, flag nor endpoint list and issues no network call; a
\* submit turned down for lack of an active endpoint keeps input and flag.
C16_RejectedSubmitChangesNothing ==
    /\ [][(handleSubmit /\ (OnlyBlanks(input) \/ isLoading)) =>
            /\ UNCHANGED <<messages, input, isLoading, endpoints>>
            /\ UNCHANGED <<networkCalls, inflight>>]_vars
    /\ [][(AcceptedSubmit /\ NoEndpointHasKey(endpoints)) =>
            UNCHANGED <<input, isLoading>>]_vars

\* two submits in a row were turned down for lack of an active endpoint: the input
\* line still holds the text and the flag is down
C16_Witness ==
    /\ messages = <<NoEndpointMessage, NoEndpointMessage>>
    /\ ~OnlyBlanks(input)
    /\ ~isLoading
    /\ networkCalls = 0
    /\ endpoints = defaultEndpoints

\* C18: maxTurns is between 1 and 20 in every state, and so is the max_turns of
\* every request.
C18_MaxTurnsBetween1And20 ==
    /\ maxTurns \in 1..20
    /\ \A k \in DOMAIN inflight : inflight[k].max_turns \in 1..20

MaxFairEdits == 1   \* settings changes explored per behaviour when fairness is checked

\* Next, with the settings changes explored up to MaxFairEdits
FairNext ==
    \/ handleSubmit
    \/ \E text \in InputTexts : setInput(text)
    \/ FetchOk
    \/ \E kind \in FailureKinds : FetchFails(kind)
    \/ ToggleSettings
    \/ edits < MaxFairEdits /\ \E checked \in BOOLEAN : setAutoContinue(checked)
    \/ edits < MaxFairEdits /\ \E text \in MaxTurnsTexts : setMaxTurns(text)
    \/ edits < MaxFairEdits /\ \E index \in 1..MaxEndpoints + 1, field \in EndpointFields :
          \E value \in FieldTexts(field) : handleEndpointUpdate(index, field, value)
    \/ edits < MaxFairEdits /\ addEndpoint
    \/ edits < MaxFairEdits /\ \E index \in 1..MaxEndpoints + 1 : removeEndpoint(index)
    \/ BackendStep

\* The request settles: the collaborator keeps taking its steps, and the
\* continuation of handleSubmit runs once the response is there.
FairSpec == Init /\ [][FairNext]_vars /\ WF_vars(BackendStep) /\ WF_vars(FetchOk)

\* C14: the in-flight flag is up only while a request is outstanding, the success
\* path and every failure path lower it, a raised flag is eventually lowered, and
\* with the flag down a submit with text in the input line is accepted.
C14_ControlReturnsToUser ==
    /\ [](isLoading => inflight # <<>>)
    /\ [][(FetchOk \/ \E kind \in FailureKinds : FetchFails(kind)) => ~isLoading']_vars
    /\ isLoading ~> ~isLoading
    /\ []((~isLoading /\ ~OnlyBlanks(input) /\ Len(messages) < MaxMessages)
            => ENABLED (handleSubmit /\ messages' # messages))

\* a request failed, the flag is down again and the next request is outstanding
C14_Witness ==
    /\ Len(messages) = 3
    /\ messages[2] = ServerErrorMessage
    /\ messages[3].role = "user"
    /\ isLoading
    /\ networkCalls = 2

(***************************************************************************)
(* The Sanitizer of the /chat collaborator, applied to names of its own.   *)
(***************************************************************************)
MaxNameLength == 64   \* strict providers take names of at most 64 characters
MaxBaseLen == 2       \* names are built from texts of at most this length

\* a-z, A-Z, 0-9, underscore and hyphen
AllowedNameChars ==
    {"a", "b", "c", "d", "e", "f", "g", "h", "i", "j", "k", "l", "m",
     "n", "o", "p", "q", "r", "s", "t", "u", "v", "w", "x", "y", "z",
     "A", "B", "C", "D", "E", "F", "G", "H", "I", "J", "K", "L", "M",
     "N", "O", "P", "Q", "R", "S", "T", "U", "V", "W", "X", "Y", "Z",
     "0", "1", "2", "3", "4", "5", "6", "7", "8", "9", "_", "-"}

ReplacementChar == "_"

\* the name an empty name becomes
DefaultName == <<"_">>

\* every character outside the allowed set becomes an underscore
ReplaceDisallowed(name) ==
    [i \in 1..Len(name) |->
        IF name[i] \in AllowedNameChars THEN name[i] ELSE ReplacementChar]

\* mutant: the name is not cut
TruncateNothing(name) == name

Truncate(name) ==
    IF Len(name) > MaxNameLength THEN SubSeq(name, 1, MaxNameLength) ELSE name

\* mutant: a name is made non-empty by putting the default in front of it
EnsureNonEmptyByPrefix(name) == DefaultName \o name

EnsureNonEmpty(name) == IF name = <<>> THEN DefaultName ELSE name

Providers == {"strict", "permissive"}

sanitize_name(name, provider) ==
    IF provider = "strict"
    THEN EnsureNonEmpty(Truncate(ReplaceDisallowed(name)))
    ELSE name

\* the characters names are built from: allowed ones, a blank, a punctuation mark
NameChars == {"a", "Z", "7", "_", "-", " ", "!"}

BaseNames == UNION {[1..n -> NameChars] : n \in 0..MaxBaseLen}

RECURSIVE Repeat(_, _)
Repeat(text, times) == IF times = 0 THEN <<>> ELSE text \o Repeat(text, times - 1)

\* enough repetitions of a text of MaxBaseLen characters to pass MaxNameLength
LongRepeat == (MaxNameLength \div MaxBaseLen) + 1

NameInputs == {Repeat(base, times) : base \in BaseNames, times \in {1, LongRepeat}}

SanitizerInit ==
    /\ AppInit
    /\ sanInput \in NameInputs
    /\ sanProvider \in Providers
    /\ sanOutputs = <<>>
    /\ viewMessages = <<>>
    /\ viewIndex = 0
    /\ viewGroups = <<>>

\* the name is sanitized, then the result is sanitized again
Sanitize ==
    /\ Len(sanOutputs) < 2
    /\ sanOutputs' = Append(sanOutputs,
                            sanitize_name(IF sanOutputs = <<>> THEN sanInput
                                          ELSE Last(sanOutputs), sanProvider))
    /\ UNCHANGED <<sanInput, sanProvider, viewVars, appVars>>

SanitizerSpec == SanitizerInit /\ [][Sanitize]_vars

\* C12: for a strict provider the sanitized name is non-empty, at most 64 characters
\* long and made of a-z, A-Z, 0-9, underscore and hyphen only; for a permissive
\* provider it is the name as given.
C12_SanitizedNameIsLegal ==
    sanOutputs # <<>> =>
        IF sanProvider = "strict"
        THEN /\ Len(sanOutputs[1]) >= 1
             /\ Len(sanOutputs[1]) <= 64
             /\ \A i \in DOMAIN sanOutputs[1] : sanOutputs[1][i] \in AllowedNameChars
        ELSE sanOutputs[1] = sanInput

\* a name longer than 64 characters with a blank in it, sanitized to 64 characters
C12_Witness ==
    /\ sanProvider = "strict"
    /\ Len(sanInput) > 64
    /\ \E i \in DOMAIN sanInput : sanInput[i] = Blank
    /\ sanOutputs # <<>>
    /\ Len(sanOutputs[1]) = 64

\* C13: for a strict provider, sanitizing the sanitized name gives the same name.
C13_SanitizeIdempotent ==
    (sanProvider = "strict" /\ Len(sanOutputs) = 2) => sanOutputs[2] = sanOutputs[1]

\* a name the first pass changed, and the second pass left alone
C13_Witness ==
    /\ sanProvider = "strict"
    /\ Len(sanOutputs) = 2
    /\ sanOutputs[1] # sanInput
    /\ sanOutputs[2] = sanOutputs[1]
    /\ Len(sanInput) > 64

(***************************************************************************)
(* The grouping, applied to message lists of its own, one reduce step at a *)
(* time.                                                                   *)
(***************************************************************************)
MaxListLen == 5   \* message lists of at most this length are grouped

Roles == {"user", "assistant"}

\* the message lists of every role pattern; each message carries its position
MessageLists ==
    UNION {{[i \in 1..n |-> [role |-> roles[i], content |-> i, name |-> NoName]] :
               roles \in [1..n -> Roles]} : n \in 0..MaxListLen}

GroupingInit ==
    /\ AppInit
    /\ sanInput = <<>>
    /\ sanProvider = "permissive"
    /\ sanOutputs = <<>>
    /\ viewMessages \in MessageLists
    /\ viewIndex = 0
    /\ viewGroups = <<>>

\* reduce hands the next message to the callback
ReduceStep ==
    /\ viewIndex < Len(viewMessages)
    /\ viewGroups' = GroupStep(viewGroups, viewMessages[viewIndex + 1])
    /\ viewIndex' = viewIndex + 1
    /\ UNCHANGED <<viewMessages, sanVars, appVars>>

GroupingSpec == GroupingInit /\ [][ReduceStep]_vars

RECURSIVE Flatten(_)
Flatten(groups) == IF groups = <<>> THEN <<>> ELSE Head(groups) \o Flatten(Tail(groups))

\* C17: the groups, concatenated in order, are the messages grouped so far, no group
\* is empty, the finished grouping is messageGroups of the list, and no step of the
\* grouping changes the list.
C17_GroupingIsPureView ==
    /\ [](/\ Flatten(viewGroups) = SubSeq(viewMessages, 1, viewIndex)
          /\ \A g \in DOMAIN viewGroups : Len(viewGroups[g]) >= 1
          /\ viewIndex = Len(viewMessages) => viewGroups = messageGroups(viewMessages))
    /\ [][viewMessages' = viewMessages]_vars

\* the list [U, A, A, U, A] grouped to its end, in three groups
C17_Witness ==
    /\ Len(viewMessages) = 5
    /\ viewIndex = 5
    /\ [i \in 1..5 |-> viewMessages[i].role] =
          <<"user", "assistant", "assistant", "user", "assistant">>
    /\ Len(viewGroups) = 3
    /\ Flatten(viewGroups) = viewMessages

====
